---------------------------- MODULE Spec2Model ----------------------------
(***************************************************************************)
(* A model of lqg/model.py: the System of a plant (Dynamics) and a         *)
(* controller (Actor), its forward simulation (System.simulate) and its    *)
(* recursive moment propagation (System.conditional_moments,               *)
(* conditional_distribution, log_likelihood).                              *)
(*                                                                         *)
(* Numbers are exact rationals <<numerator, denominator>>; the value       *)
(* <<0, 0>> stands for a non-finite floating point number (inf or nan).    *)
(* Vectors are sequences of numbers, matrices sequences of rows.           *)
(***************************************************************************)
EXTENDS Integers, Sequences, FiniteSets, TLC

(***************************************************************************)
(* Bounds of the model.                                                    *)
(***************************************************************************)
\* largest horizon T passed to simulate
MaxT == 3
\* largest number of trials n passed to simulate
MaxN == 2
\* number of top-level calls made on one System
MaxCalls == 3
\* size of the key space of the random number generator
KeyMod == 8

(***************************************************************************)
(* Arithmetic.                                                             *)
(***************************************************************************)
Abs(n) == IF n < 0 THEN -n ELSE n

RECURSIVE GCD(_, _)
GCD(a, b) == IF b = 0 THEN a ELSE GCD(b, a % b)

NaN == <<0, 0>>

IsFinite(p) == p[2] # 0

Norm(n, d) ==
    IF d = 0 THEN NaN
    ELSE LET g == GCD(Abs(n), Abs(d))
             s == IF d < 0 THEN -1 ELSE 1
         IN  <<(s * n) \div g, (s * d) \div g>>

R(n) == <<n, 1>>

Frac(n, d) == Norm(n, d)

RAdd(p, q) ==
    IF ~IsFinite(p) \/ ~IsFinite(q) THEN NaN
    ELSE LET g == GCD(p[2], q[2])
         IN  Norm(p[1] * (q[2] \div g) + q[1] * (p[2] \div g),
                  (p[2] \div g) * q[2])

RNeg(p) == IF ~IsFinite(p) THEN NaN ELSE <<-p[1], p[2]>>

RSub(p, q) == RAdd(p, RNeg(q))

\* inf * 0 = nan and inf * a = inf: both non-finite
RMul(p, q) ==
    IF ~IsFinite(p) \/ ~IsFinite(q) THEN NaN
    ELSE LET g == GCD(Abs(p[1]), q[2])
             h == GCD(Abs(q[1]), p[2])
         IN  Norm((p[1] \div g) * (q[1] \div h), (p[2] \div h) * (q[2] \div g))

\* 1 / 0 = inf
RInv(p) == IF ~IsFinite(p) \/ p[1] = 0 THEN NaN ELSE Norm(p[2], p[1])

RECURSIVE RSum(_)
RSum(s) == IF Len(s) = 0 THEN R(0) ELSE RAdd(s[1], RSum(Tail(s)))

(***************************************************************************)
(* Arrays, with the shape rules of jax.numpy.                              *)
(***************************************************************************)
Rows(M) == Len(M)

Cols(M) == IF Len(M) = 0 THEN 0 ELSE Len(M[1])

\* an array is held as a tuple of its entries, built once
Seal(s) == s \o <<>>

zeros(k) == Seal([i \in 1..k |-> R(0)])

ZeroMat(r, c) == Seal([i \in 1..r |-> zeros(c)])

IntVec(v) == Seal([i \in 1..Len(v) |-> R(v[i])])

IntMat(M) == Seal([i \in 1..Len(M) |-> IntVec(M[i])])

Dot(u, v) == RSum(Seal([i \in 1..Len(u) |-> RMul(u[i], v[i])]))

MatVec(M, v) == Seal([i \in 1..Rows(M) |-> Dot(M[i], v)])

Transpose(M) ==
    Seal([j \in 1..Cols(M) |-> Seal([i \in 1..Rows(M) |-> M[i][j]])])

MatMul(M, N) ==
    LET Nt == Transpose(N)
    IN  Seal([i \in 1..Rows(M) |->
                Seal([j \in 1..Cols(N) |-> Dot(M[i], Nt[j])])])

\* broadcasting of an elementwise operation: equal lengths, or one of them 1
BroadcastOK(a, b) == a = b \/ a = 1 \/ b = 1

BLen(a, b) == IF a = 1 THEN b ELSE a

Pick(v, i) == IF Len(v) = 1 THEN v[1] ELSE v[i]

VecAdd(u, v) ==
    Seal([i \in 1..BLen(Len(u), Len(v)) |-> RAdd(Pick(u, i), Pick(v, i))])

VecSub(u, v) ==
    Seal([i \in 1..BLen(Len(u), Len(v)) |-> RSub(Pick(u, i), Pick(v, i))])

VecNeg(v) == Seal([i \in 1..Len(v) |-> RNeg(v[i])])

MatAdd(M, N) ==
    Seal([i \in 1..BLen(Rows(M), Rows(N)) |-> VecAdd(Pick(M, i), Pick(N, i))])

MatSub(M, N) ==
    Seal([i \in 1..BLen(Rows(M), Rows(N)) |-> VecSub(Pick(M, i), Pick(N, i))])

MatNeg(M) == Seal([i \in 1..Rows(M) |-> VecNeg(M[i])])

hstack(M, N) == Seal([i \in 1..Rows(M) |-> M[i] \o N[i]])

vstack(M, N) == M \o N

\* M[:r, :c]
Block(M, r, c) == Seal([i \in 1..r |-> SubSeq(M[i], 1, c)])

\* M[:, :c]
LeftCols(M, c) == Seal([i \in 1..Rows(M) |-> SubSeq(M[i], 1, c)])

\* M[:r, :]
TopRows(M, r) == SubSeq(M, 1, r)

VecFinite(v) == \A i \in 1..Len(v) : IsFinite(v[i])

MatFinite(M) == \A i \in 1..Rows(M) : VecFinite(M[i])

(***************************************************************************)
(* jnp.linalg.inv: the exact inverse, and non-finite entries throughout    *)
(* for a singular matrix (the LU solve divides by the zero pivot and       *)
(* raises nothing).                                                        *)
(***************************************************************************)
Minor(M, r, c) ==
    Seal([i \in 1..(Rows(M) - 1) |->
            Seal([j \in 1..(Cols(M) - 1) |->
                    M[IF i < r THEN i ELSE i + 1][IF j < c THEN j ELSE j + 1]])])

Sign(k) == IF k % 2 = 0 THEN R(1) ELSE R(-1)

RECURSIVE Det(_)
Det(M) ==
    IF Rows(M) = 0 THEN R(1)
    ELSE IF Rows(M) = 1 THEN M[1][1]
    ELSE RSum(Seal([j \in 1..Cols(M) |->
                      RMul(RMul(Sign(1 + j), M[1][j]), Det(Minor(M, 1, j)))]))

Singular(M) == ~MatFinite(M) \/ Det(M) = R(0)

inv(M) ==
    IF Singular(M)
    THEN Seal([i \in 1..Rows(M) |-> Seal([j \in 1..Cols(M) |-> NaN])])
    ELSE LET dinv == RInv(Det(M))
         IN  Seal([i \in 1..Rows(M) |->
                    Seal([j \in 1..Cols(M) |->
                            RMul(dinv, RMul(Sign(i + j), Det(Minor(M, j, i))))])])

(***************************************************************************)
(* jax.random: keys are numbers below KeyMod, split and normal are pure    *)
(* functions of the key they are given.                                    *)
(***************************************************************************)
\* random.split(key, num)[j], j = 0 .. num-1
split(key, j) == (3 * key + 2 * j + 1) % KeyMod

\* random.normal(key, shape=(T, d)): T rows of d draws, each in {-1, 0, 1}
normal(key, T, d) ==
    Seal([t \in 1..T |-> Seal([i \in 1..d |-> R(((key + 2 * t + i) % 3) - 1)])])

(***************************************************************************)
(* The data model: Dynamics, Actor and the parameter tuples a System is    *)
(* built from.                                                             *)
(***************************************************************************)
Dynamics(A, B, C, V, W) == [A |-> A, B |-> B, C |-> C, V |-> V, W |-> W]

Actor(A, B, C, V, W, Q, Rc) ==
    [A |-> A, B |-> B, C |-> C, V |-> V, W |-> W, Q |-> Q, R |-> Rc]

I1 == IntMat(<<<<1>>>>)

I2 == IntMat(<<<<1, 0>>, <<0, 1>>>>)

\* a one-state plant and a controller holding the same matrices
ScalarPair ==
    [dynamics |-> Dynamics(I1, I1, I1, I1, I1),
     actor |-> Actor(I1, I1, I1, I1, I1, I1, I1)]

\* model mismatch: the controller's B differs from the plant's
MismatchPair ==
    [dynamics |-> Dynamics(I1, I1, I1, I1, I1),
     actor |-> Actor(I1, IntMat(<<<<2>>>>), I1, I1, I1, I1, I1)]

\* no process and no observation noise
NoiselessPair ==
    [dynamics |-> Dynamics(I1, I1, I1, ZeroMat(1, 1), ZeroMat(1, 1)),
     actor |-> Actor(I1, I1, I1, ZeroMat(1, 1), ZeroMat(1, 1), I1, I1)]

\* the two-state, one-action tracking model of the module's own demo
TrackingPair ==
    LET B == IntMat(<<<<0>>, <<1>>>>)
        V == IntMat(<<<<1, 0>>, <<0, 2>>>>)
        W == IntMat(<<<<2, 0>>, <<0, 1>>>>)
        Q == IntMat(<<<<1, -1>>, <<-1, 1>>>>)
    IN  [dynamics |-> Dynamics(I2, B, I2, V, W),
         actor |-> Actor(I2, B, I2, V, W, Q, I1)]

\* inconsistent shapes: the plant's B has one row, its A has two
BadShapePair ==
    LET B == IntMat(<<<<0>>, <<1>>>>)
        Q == IntMat(<<<<1, -1>>, <<-1, 1>>>>)
    IN  [dynamics |-> Dynamics(I2, I1, I2, I2, I2),
         actor |-> Actor(I2, B, I2, I2, I2, Q, I1)]

\* a two-state plant observed through one coordinate
PartialObsPair ==
    LET B == IntMat(<<<<0>>, <<1>>>>)
        C == IntMat(<<<<1, 0>>>>)
        Q == IntMat(<<<<1, -1>>, <<-1, 1>>>>)
    IN  [dynamics |-> Dynamics(I2, B, C, I2, I1),
         actor |-> Actor(I2, B, C, I2, I1, Q, I1)]

Pairs ==
    {ScalarPair, MismatchPair, NoiselessPair, TrackingPair, BadShapePair,
     PartialObsPair}

\* the shapes of one (A, B, C, V, W) tuple fit together
TupleShapesOK(d) ==
    /\ Rows(d.A) = Cols(d.A)
    /\ Rows(d.B) = Rows(d.A)
    /\ Cols(d.C) = Rows(d.A)
    /\ Rows(d.V) = Rows(d.A) /\ Cols(d.V) = Rows(d.A)
    /\ Rows(d.W) = Rows(d.C) /\ Cols(d.W) = Rows(d.C)

ShapesOK(p) ==
    /\ TupleShapesOK(p.dynamics)
    /\ TupleShapesOK(p.actor)
    /\ Cols(p.actor.B) = Cols(p.dynamics.B)
    /\ Rows(p.actor.C) = Rows(p.dynamics.C)

(***************************************************************************)
(* The gain provider (lqg.lqr.control_law, lqg.kalman.kalman_gain): a pure *)
(* function of the actor's matrices and of T.  Its value is one matrix     *)
(* (model.py multiplies it and stacks it as such); which function it is    *)
(* is left open between a provider whose gains do not depend on T and one  *)
(* whose gains do.                                                         *)
(***************************************************************************)
Fill(r, c, q) == Seal([i \in 1..r |-> Seal([j \in 1..c |-> q])])

Scaled(r, c, q) ==
    Seal([i \in 1..r |-> Seal([j \in 1..c |-> IF i = j THEN q ELSE R(0)])])

Providers == {"stationary", "horizon"}

control_law(pv, a, T) ==
    IF pv = "stationary" THEN Fill(Cols(a.B), Rows(a.A), R(1))
    ELSE Fill(Cols(a.B), Rows(a.A), Frac(1, 1 + (T % 2)))

kalman_gain(pv, a, T) ==
    IF pv = "stationary" THEN Scaled(Rows(a.A), Rows(a.C), Frac(1, 2))
    ELSE Fill(Rows(a.A), Rows(a.C), Frac(1, 2 - (T % 2)))

\* Actor.L(T) and Actor.K(T)
Actor_L(pv, a, T) == control_law(pv, a, T)

Actor_K(pv, a, T) == kalman_gain(pv, a, T)

(***************************************************************************)
(* System: the derived dimensions.                                         *)
(***************************************************************************)
xdim(sy) == Rows(sy.dynamics.A)

bdim(sy) == Rows(sy.actor.A)

udim(sy) == Cols(sy.dynamics.B)

(***************************************************************************)
(* System.simulate.                                                        *)
(***************************************************************************)
\* the x0 argument: <<>> is None, <<v>> the vector v
None == <<>>

\* x0 = jnp.zeros(self.xdim) if x0 is None else x0
initial_x(sy, x0) == IF x0 = None THEN zeros(xdim(sy)) ELSE x0[1]

\* xhat0 = jnp.zeros(self.bdim): simulate passes no xhat0
initial_xhat(sy) == zeros(bdim(sy))

\* the keys of one trial's two noise sequences, from the trial's key
epsilon_key(trial_key) == split(trial_key, 1)

eta_key(trial_key) == split(split(trial_key, 0), 1)

\* one iteration of the scan, on the noise rows of this step
loop_with(sy, L, K, eps_t, eta_t, carry) ==
    LET x == carry[1]
        x_hat == carry[2]
        u == VecNeg(MatVec(L, x_hat))
        x1 == VecAdd(VecAdd(MatVec(sy.dynamics.A, x), MatVec(sy.dynamics.B, u)),
                     MatVec(sy.dynamics.V, eps_t))
        y == VecAdd(MatVec(sy.dynamics.C, x1), MatVec(sy.dynamics.W, eta_t))
        x_pred == VecAdd(MatVec(sy.actor.A, x_hat), MatVec(sy.actor.B, u))
        x_hat1 == VecAdd(x_pred,
                         MatVec(K, VecSub(y, MatVec(sy.actor.C, x_pred))))
    IN  [carry |-> <<x1, x_hat1>>,
         x |-> x1, x_hat |-> x_hat1, y |-> y, u |-> u, L |-> L, K |-> K]

ScaleMat(M, q) ==
    Seal([i \in 1..Rows(M) |-> Seal([j \in 1..Cols(M) |-> RMul(q, M[i][j])])])

\* a loop whose gain depends on the step index
loop_indexed(sy, L, K, epsilon, eta, carry, t) ==
    loop_with(sy, ScaleMat(L, R(t)), K, epsilon[t + 1], eta[t + 1], carry)

\* loop(carry, t): epsilon[t] and eta[t] are rows t+1 counted from one
loop(sy, L, K, epsilon, eta, carry, t) ==
    loop_with(sy, L, K, epsilon[t + 1], eta[t + 1], carry)

\* the shapes jax accepts when it traces the scan body and the final stacking
loop_shapes_ok(sy, L, K, x0v) ==
    LET nx == Len(x0v)
        nb == bdim(sy)
        nu == Rows(L)
        ax == Rows(sy.dynamics.A)
        bx == Rows(sy.dynamics.B)
        vx == Rows(sy.dynamics.V)
        s1 == BLen(ax, bx)
        x1 == BLen(s1, vx)
        cy == Rows(sy.dynamics.C)
        wy == Rows(sy.dynamics.W)
        ny == BLen(cy, wy)
        pa == Rows(sy.actor.A)
        pb == Rows(sy.actor.B)
        np == BLen(pa, pb)
        ci == Rows(sy.actor.C)
        ni == BLen(ny, ci)
        kr == Rows(K)
        nh == BLen(np, kr)
    IN  /\ Cols(L) = nb
        /\ Cols(sy.dynamics.A) = nx /\ Cols(sy.dynamics.B) = nu
        /\ Cols(sy.dynamics.V) = nx
        /\ BroadcastOK(ax, bx) /\ BroadcastOK(s1, vx)
        /\ Cols(sy.dynamics.C) = x1 /\ Cols(sy.dynamics.W) = nx
        /\ BroadcastOK(cy, wy)
        /\ Cols(sy.actor.A) = nb /\ Cols(sy.actor.B) = nu
        /\ BroadcastOK(pa, pb)
        /\ Cols(sy.actor.C) = np /\ BroadcastOK(ny, ci)
        /\ Cols(K) = ni /\ BroadcastOK(np, kr)
        \* the carry keeps its type
        /\ x1 = nx /\ nh = nb
        \* self.dynamics.C @ x0 + self.dynamics.V @ eta[0]
        /\ BroadcastOK(cy, vx)

\* a scan that starts at step 0: jnp.arange(0, T)
scan_steps_from_zero(T) == Seal([k \in 1..T |-> k - 1])

\* the steps the scan runs over, in order: jnp.arange(1, T)
scan_steps(T) == Seal([k \in 1..(T - 1) |-> k])

\* step-0 rows whose state already carries process noise
first_rows_noisy(sy, x0v, eta0) ==
    [x |-> VecAdd(x0v, MatVec(sy.dynamics.V, eta0)),
     x_hat |-> initial_xhat(sy),
     y |-> VecAdd(MatVec(sy.dynamics.C, x0v), MatVec(sy.dynamics.V, eta0))]

\* the step-0 rows stacked in front of the scanned ones
first_rows(sy, x0v, eta0) ==
    [x |-> x0v,
     x_hat |-> initial_xhat(sy),
     y |-> VecAdd(MatVec(sy.dynamics.C, x0v), MatVec(sy.dynamics.V, eta0))]

(***************************************************************************)
(* System.conditional_moments.                                             *)
(***************************************************************************)
\* the augmented transition matrix F
transition_F(sy, L, K) ==
    LET dy == sy.dynamics
        ac == sy.actor
    IN  vstack(hstack(dy.A, MatNeg(MatMul(dy.B, L))),
               hstack(MatMul(MatMul(K, dy.C), dy.A),
                      MatSub(MatSub(ac.A, MatMul(ac.B, L)),
                             MatMul(MatMul(K, ac.C), ac.A))))

\* the noise shaping matrix G
noise_G(sy, L, K) ==
    LET dy == sy.dynamics
    IN  vstack(hstack(dy.V, ZeroMat(Cols(dy.C), Rows(dy.C))),
               hstack(MatMul(MatMul(K, dy.C), dy.V), MatMul(K, dy.W)))

\* the shapes jax accepts when it assembles F and G and traces f
moments_shapes_ok(sy, L, K, d) ==
    LET dy == sy.dynamics
        ac == sy.actor
        br == BLen(Rows(ac.A), Rows(ac.B))
        bc == BLen(Cols(ac.A), Cols(L))
        lr == BLen(br, Rows(K))
        lc == BLen(bc, Cols(ac.A))
        fr == Rows(dy.A) + Rows(K)
        fc == Cols(dy.A) + Cols(L)
        gr == Rows(dy.V) + Rows(K)
        k == Rows(dy.A) + Rows(ac.A)
        dk == IF d < k THEN d ELSE k
        dd == IF d < gr THEN d ELSE gr
    IN  \* F
        /\ Cols(dy.B) = Rows(L) /\ Rows(dy.A) = Rows(dy.B)
        /\ Cols(K) = Rows(dy.C) /\ Cols(dy.C) = Rows(dy.A)
        /\ Cols(ac.B) = Rows(L)
        /\ BroadcastOK(Rows(ac.A), Rows(ac.B)) /\ BroadcastOK(Cols(ac.A), Cols(L))
        /\ Cols(K) = Rows(ac.C) /\ Cols(ac.C) = Rows(ac.A)
        /\ BroadcastOK(br, Rows(K)) /\ BroadcastOK(bc, Cols(ac.A))
        /\ Rows(K) = lr /\ Cols(L) = lc
        \* G
        /\ Rows(dy.V) = Cols(dy.C) /\ Cols(K) = Rows(dy.W)
        /\ Rows(dy.C) = Cols(dy.W)
        \* f, whose carry keeps its type
        /\ k = fc /\ fc = gr /\ fr = k /\ fr = gr
        /\ BroadcastOK(d, dk) /\ BLen(d, dk) = dd

\* mu = jnp.zeros((n, xdim + bdim)) if mu0 is None else mu0
initial_mu(sy, n, mu0) ==
    IF mu0 = None THEN ZeroMat(n, Rows(sy.dynamics.A) + Rows(sy.actor.A))
    ELSE mu0[1]

\* Sigma = G @ G.T
initial_Sigma(G) == MatMul(G, Transpose(G))

\* the carried moments conditioned on xt: the innovation against the carried
\* mean, scaled by the inverse of the carried covariance's observed block
condition(d, carry, xt) ==
    LET mu == carry[1]
        Sigma == carry[2]
        Si == inv(Block(Sigma, d, d))
    IN  <<MatAdd(mu, MatMul(MatMul(MatSub(xt, LeftCols(mu, d)), Transpose(Si)),
                            Transpose(LeftCols(Sigma, d)))),
          MatSub(Sigma, MatMul(MatMul(LeftCols(Sigma, d), Si), TopRows(Sigma, d)))>>

\* moments pushed through the transition: mu F^T and F Sigma F^T + G G^T
predict(F, G, carry) ==
    <<MatMul(carry[1], Transpose(F)),
      MatAdd(MatMul(MatMul(F, carry[2]), Transpose(F)), MatMul(G, Transpose(G)))>>

condition_then_predict(F, G, d, carry, xt) ==
    predict(F, G, condition(d, carry, xt))

predict_then_condition(F, G, d, carry, xt) ==
    condition(d, predict(F, G, carry), xt)

\* a step that predicts before it conditions
f_predict_first(F, G, d, carry, xt) == predict_then_condition(F, G, d, carry, xt)

\* f(carry, xt): one step of the scan over the rows of x
f(F, G, d, carry, xt) ==
    LET mu == carry[1]
        Sigma == carry[2]
        Si == inv(Block(Sigma, d, d))
        FS == MatMul(F, Sigma)
        mu1 == MatAdd(MatMul(mu, Transpose(F)),
                      MatMul(MatMul(MatSub(xt, LeftCols(mu, d)), Transpose(Si)),
                             Transpose(LeftCols(FS, d))))
        Sigma1 == MatSub(MatAdd(MatMul(FS, Transpose(F)), MatMul(G, Transpose(G))),
                         MatMul(MatMul(LeftCols(FS, d), Si),
                                TopRows(MatMul(Sigma, Transpose(F)), d)))
    IN  <<mu1, Sigma1>>

\* scan(f, (mu, Sigma), x): the pairs emitted, one for each row of x
RECURSIVE scan_f(_, _, _, _, _)
scan_f(F, G, d, carry, x) ==
    IF Len(x) = 0 THEN <<>>
    ELSE LET c == f(F, G, d, carry, x[1])
         IN  <<c>> \o scan_f(F, G, d, c, Tail(x))

conditional_moments(sy, L, K, x, mu0) ==
    LET G == noise_G(sy, L, K)
    IN  scan_f(transition_F(sy, L, K), G, Len(x[1][1]),
               <<initial_mu(sy, Len(x[1]), mu0), initial_Sigma(G)>>, x)

(***************************************************************************)
(* conditional_distribution and log_likelihood.                            *)
(***************************************************************************)
\* dist.MultivariateNormal(loc, cov).log_prob(value): the density numpyro
\* evaluates, kept as the term's three arguments
log_prob(loc, cov, value) == [loc |-> loc, cov |-> cov, value |-> value]

\* the distribution's parameters of trial i at step t, from the emitted
\* moments: mu[:, :, :d].transpose((1, 0, 2)) and Sigma[:, :d, :d]
distribution_loc(moments, d, i, t) == SubSeq(moments[t][1][i], 1, d)

distribution_cov(moments, d, t) == Block(moments[t][2], d, d)

\* x[:-1] and x[1:]
all_but_last(x) == SubSeq(x, 1, Len(x) - 1)

\* scoring each step's own row instead of the next one
all_but_first_same_step(x) == SubSeq(x, 1, Len(x) - 1)

all_but_first(x) == SubSeq(x, 2, Len(x))

\* log_prob of x[1:].transpose((1, 0, 2)) under the distribution of x[:-1]:
\* an array with a row for each trial and a column for each scored step
score(moments, x) ==
    LET d == Len(x[1][1])
        obs == all_but_first(x)
    IN  [i \in 1..Len(x[1]) |->
            [t \in 1..Len(obs) |->
                log_prob(distribution_loc(moments, d, i, t),
                         distribution_cov(moments, d, t), obs[t][i])]]

(***************************************************************************)
(* The state: one System, the calls made on it and what they returned.     *)
(***************************************************************************)
VARIABLES
    params,   \* the plant and controller tuples the System is built from
    sys,      \* <<>> before construction, then <<the System>>
    provider, \* which function the gain provider is
    pc,       \* "new", "idle", "simulate" (in the scan) or "moments"
    frame,    \* the locals of the call in progress
    out,      \* what the call that ended last returned or raised
    data,     \* <<>>, or <<x>>: the states the caller holds from simulate
    ref,      \* a simulate call an observer remembers: arguments and result
    ncalls    \* calls made so far

vars == <<params, sys, provider, pc, frame, out, data, ref, ncalls>>

NoFrame == [op |-> "none"]

NoOut == [kind |-> "none"]

Init ==
    /\ params \in Pairs
    /\ sys = <<>>
    /\ provider \in Providers
    /\ pc = "new"
    /\ frame = NoFrame
    /\ out = NoOut
    /\ data = <<>>
    /\ ref = [set |-> FALSE]
    /\ ncalls = 0

\* System.__init__(actor, dynamics): stores both, checks nothing
System(actor, dynamics) == [actor |-> actor, dynamics |-> dynamics]

\* LQG.__init__(A, B, C, V, W, Q, R): plant and controller from one tuple
LQG(A, B, C, V, W, Q, Rc) ==
    System(Actor(A, B, C, V, W, Q, Rc), Dynamics(A, B, C, V, W))

ConstructSystem ==
    /\ pc = "new"
    /\ sys' = <<System(params.actor, params.dynamics)>>
    /\ pc' = "idle"
    /\ UNCHANGED <<params, provider, frame, out, data, ref, ncalls>>

ConstructLQG ==
    /\ pc = "new"
    /\ LET p == params.dynamics
       IN  sys' = <<LQG(p.A, p.B, p.C, p.V, p.W, params.actor.Q, params.actor.R)>>
    /\ pc' = "idle"
    /\ UNCHANGED <<params, provider, frame, out, data, ref, ncalls>>

\* the gain provider rejects an actor whose own matrices do not fit together
provider_ok(a) == TupleShapesOK(a)

Raise(err) ==
    /\ out' = [kind |-> "error", err |-> err]
    /\ pc' = "idle"
    /\ frame' = NoFrame
    /\ ncalls' = ncalls + 1

(***************************************************************************)
(* simulate(rng_key, n, T, x0, return_all), one scan iteration at a time;  *)
(* the n trials of the vmap advance together.                              *)
(***************************************************************************)
SeedKeys == {0, 1}

Ones(k) == Seal([i \in 1..k |-> R(1)])

\* trial keys drawn from a generator that every call advances
trial_key_global(rng_key, i) == split((rng_key + ncalls) % KeyMod, i - 1)

\* random.split(rng_key, num=n): the key of trial i
trial_key(rng_key, i) == split(rng_key, i - 1)

SimulateFrame(sy, args, L, K) ==
    LET x0v == initial_x(sy, args.x0)
    IN  [op |-> "simulate", args |-> args, L |-> L, K |-> K, x0 |-> x0v,
         epsilon |-> [i \in 1..args.n |->
                        normal(epsilon_key(trial_key(args.key, i)), args.T, Len(x0v))],
         eta |-> [i \in 1..args.n |->
                        normal(eta_key(trial_key(args.key, i)), args.T, Len(x0v))],
         steps |-> scan_steps(args.T), pos |-> 1,
         carry |-> [i \in 1..args.n |-> <<x0v, initial_xhat(sy)>>],
         x |-> <<>>, x_hat |-> <<>>, y |-> <<>>, u |-> <<>>, applied |-> <<>>]

SimulateCall(key, n, T, x0, return_all) ==
    /\ pc = "idle"
    /\ ncalls < MaxCalls
    /\ LET sy == sys[1]
           args == [key |-> key, n |-> n, T |-> T, x0 |-> x0,
                    return_all |-> return_all]
           L == Actor_L(provider, sy.actor, T)
           K == Actor_K(provider, sy.actor, T)
       IN  IF ~provider_ok(sy.actor) \/ ~loop_shapes_ok(sy, L, K, initial_x(sy, x0))
           THEN Raise("TypeError")
           ELSE /\ frame' = SimulateFrame(sy, args, L, K)
                /\ pc' = "simulate"
                /\ out' = NoOut
                /\ UNCHANGED ncalls
    /\ data' = <<>>
    /\ UNCHANGED <<params, sys, provider, ref>>

SimulateLoop ==
    /\ pc = "simulate"
    /\ frame.pos <= Len(frame.steps)
    /\ LET t == frame.steps[frame.pos]
           n == frame.args.n
           r == Seal([i \in 1..n |->
                         loop(sys[1], frame.L, frame.K, frame.epsilon[i],
                              frame.eta[i], frame.carry[i], t)])
       IN  frame' = [frame EXCEPT
                       !.pos = @ + 1,
                       !.carry = [i \in 1..n |-> r[i].carry],
                       !.x = Append(@, [i \in 1..n |-> r[i].x]),
                       !.x_hat = Append(@, [i \in 1..n |-> r[i].x_hat]),
                       !.y = Append(@, [i \in 1..n |-> r[i].y]),
                       !.u = Append(@, [i \in 1..n |-> r[i].u]),
                       !.applied = Append(@, [L |-> r[1].L, K |-> r[1].K])]
    /\ UNCHANGED <<params, sys, provider, pc, out, data, ref, ncalls>>

\* what simulate hands back: the stacked rows, trials along axis 1
returned(sy, fr) ==
    LET n == fr.args.n
        first == Seal([i \in 1..n |-> first_rows(sy, fr.x0, fr.eta[i][1])])
        x == vstack(<<[i \in 1..n |-> first[i].x]>>, fr.x)
    IN  IF fr.args.return_all
        THEN [kind |-> "simulate", args |-> fr.args, x |-> x,
              x_hat |-> vstack(<<[i \in 1..n |-> first[i].x_hat]>>, fr.x_hat),
              y |-> <<[i \in 1..n |-> first[i].y]>>,
              u |-> fr.u]
        ELSE [kind |-> "simulate", args |-> fr.args, x |-> x,
              x_hat |-> <<>>, y |-> <<>>, u |-> <<>>]

SimulateReturn ==
    /\ pc = "simulate"
    /\ frame.pos > Len(frame.steps)
    /\ out' = returned(sys[1], frame)
    /\ data' = <<out'.x>>
    /\ pc' = "idle"
    /\ frame' = NoFrame
    /\ ncalls' = ncalls + 1
    /\ UNCHANGED <<params, sys, provider, ref>>

(***************************************************************************)
(* conditional_moments(x, mu0) and log_likelihood(x), one row of x at a    *)
(* time.  x is the trajectory the caller holds from simulate.              *)
(***************************************************************************)
MomentsFrame(sy, caller, x, L, K, mu0) ==
    LET G == noise_G(sy, L, K)
    IN  [op |-> caller, x |-> x, mu0 |-> mu0, L |-> L, K |-> K,
         F |-> transition_F(sy, L, K), G |-> G, d |-> Len(x[1][1]),
         pos |-> 1,
         carry |-> <<initial_mu(sy, Len(x[1]), mu0), initial_Sigma(G)>>,
         moments |-> <<>>]

MomentsCall(caller, x, mu0) ==
    /\ pc = "idle"
    /\ ncalls < MaxCalls
    /\ Len(x) >= 1
    /\ LET sy == sys[1]
           L == Actor_L(provider, sy.actor, Len(x))
           K == Actor_K(provider, sy.actor, Len(x))
       IN  IF ~provider_ok(sy.actor) \/ ~moments_shapes_ok(sy, L, K, Len(x[1][1]))
           THEN Raise("TypeError")
           ELSE /\ frame' = MomentsFrame(sy, caller, x, L, K, mu0)
                /\ pc' = "moments"
                /\ out' = NoOut
                /\ UNCHANGED ncalls
    /\ UNCHANGED <<params, sys, provider, data, ref>>

\* a caller-supplied prior mean
GivenMu(sy, n) == <<[i \in 1..n |-> Ones(Rows(sy.dynamics.A) + Rows(sy.actor.A))]>>

ConditionalMomentsCall ==
    /\ pc = "idle"
    /\ data # <<>>
    /\ \E mu0 \in {None, GivenMu(sys[1], Len(data[1][1]))} :
          MomentsCall("conditional_moments", data[1], mu0)

\* log_likelihood(x): conditional_distribution(x[:-1]), and so
\* conditional_moments(x[:-1]) with mu0 = None
LogLikelihoodCall ==
    /\ pc = "idle"
    /\ data # <<>>
    /\ MomentsCall("log_likelihood", all_but_last(data[1]), None)

MomentsStep ==
    /\ pc = "moments"
    /\ frame.pos <= Len(frame.x)
    /\ LET c == f(frame.F, frame.G, frame.d, frame.carry, frame.x[frame.pos])
       IN  frame' = [frame EXCEPT !.pos = @ + 1, !.carry = c,
                                  !.moments = Append(@, c)]
    /\ UNCHANGED <<params, sys, provider, pc, out, data, ref, ncalls>>

MomentsReturn ==
    /\ pc = "moments"
    /\ frame.pos > Len(frame.x)
    /\ out' = IF frame.op = "log_likelihood"
              THEN [kind |-> "log_likelihood", x |-> data[1],
                    ll |-> score(frame.moments, data[1]),
                    shape |-> <<Len(data[1][1]), Len(frame.moments)>>]
              ELSE [kind |-> "moments", x |-> frame.x, mu0 |-> frame.mu0,
                    moments |-> frame.moments]
    /\ ref' = IF ref.set THEN [ref EXCEPT !.others = TRUE] ELSE ref
    /\ pc' = "idle"
    /\ frame' = NoFrame
    /\ ncalls' = ncalls + 1
    /\ UNCHANGED <<params, sys, provider, data>>

Simulate ==
    /\ pc = "idle"
    /\ \E key \in SeedKeys, n \in 1..MaxN, T \in 1..MaxT, return_all \in BOOLEAN :
          \E x0 \in {None, <<Ones(xdim(sys[1]))>>} :
             SimulateCall(key, n, T, x0, return_all)

Next ==
    \/ ConstructSystem
    \/ ConstructLQG
    \/ Simulate
    \/ SimulateLoop
    \/ SimulateReturn
    \/ ConditionalMomentsCall
    \/ LogLikelihoodCall
    \/ MomentsStep
    \/ MomentsReturn

Spec == Init /\ [][Next]_vars

(***************************************************************************)
(* Replays: an observer remembers the first simulate call; later simulate  *)
(* calls repeat its arguments, with the same or with another key, and      *)
(* conditional_moments and log_likelihood calls come in between.           *)
(***************************************************************************)
Remember ==
    /\ pc = "idle"
    /\ out.kind = "simulate"
    /\ ~ref.set
    /\ ref' = [set |-> TRUE, args |-> out.args, out |-> out, others |-> FALSE]
    /\ UNCHANGED <<params, sys, provider, pc, frame, out, data, ncalls>>

SimulateFirst ==
    /\ ncalls = 0
    /\ Simulate

SimulateAgain ==
    /\ pc = "idle"
    /\ ref.set
    /\ \E key \in SeedKeys :
          SimulateCall(key, ref.args.n, ref.args.T, ref.args.x0,
                       ref.args.return_all)

MomentsBetween ==
    /\ ref.set
    /\ ConditionalMomentsCall \/ LogLikelihoodCall

NextReplay ==
    \/ ConstructSystem
    \/ ConstructLQG
    \/ SimulateFirst
    \/ Remember
    \/ SimulateAgain
    \/ SimulateLoop
    \/ SimulateReturn
    \/ MomentsBetween
    \/ MomentsStep
    \/ MomentsReturn

SpecReplay == Init /\ [][NextReplay]_vars

(***************************************************************************)
(* Properties.                                                             *)
(***************************************************************************)
Returned == out.kind = "simulate"

ReturnedAll == out.kind = "simulate" /\ out.args.return_all

\* every row of the array a holds n vectors of length k
RowsAre(a, n, k) ==
    \A t \in 1..Len(a) : Len(a[t]) = n /\ \A i \in 1..n : Len(a[t][i]) = k

\* C1 as stated: simulate with return_all returns T+1 rows of states, T+1
\* rows of beliefs and T-1 rows of actions.
C1_RowsTPlusOne ==
    (ReturnedAll /\ ShapesOK(sys[1])) =>
        /\ Len(out.x) = out.args.T + 1
        /\ Len(out.x_hat) = out.args.T + 1
        /\ Len(out.u) = out.args.T - 1

\* C1 amended: for a valid System, simulate with return_all returns states of
\* shape (T, n, state-dim), beliefs of shape (T, n, belief-dim) and actions of
\* shape (T-1, n, action-dim).
C1_RowsT ==
    (ReturnedAll /\ ShapesOK(sys[1])) =>
        /\ Len(out.x) = out.args.T
        /\ RowsAre(out.x, out.args.n, xdim(sys[1]))
        /\ Len(out.x_hat) = out.args.T
        /\ RowsAre(out.x_hat, out.args.n, bdim(sys[1]))
        /\ Len(out.u) = out.args.T - 1
        /\ RowsAre(out.u, out.args.n, udim(sys[1]))

C1_Witness ==
    /\ ReturnedAll /\ ShapesOK(sys[1])
    /\ out.args.T = MaxT /\ out.args.n = MaxN /\ xdim(sys[1]) = 2

\* the gains of the call log_likelihood(x) makes: conditional_moments(x[:-1])
ll_L(x) == Actor_L(provider, sys[1].actor, Len(x) - 1)

ll_K(x) == Actor_K(provider, sys[1].actor, Len(x) - 1)

\* the term of trial i at scored step t (x[t] counted from zero is x[t+1]
\* here): the moments come from the rows x[0..t-1] alone
TermFromPrefix(x, i, t) ==
    LET d == Len(x[1][1])
        m == conditional_moments(sys[1], ll_L(x), ll_K(x), SubSeq(x, 1, t), None)
    IN  log_prob(SubSeq(m[t][1][i], 1, d), Block(m[t][2], d, d), x[t + 1][i])

\* C2 as stated: log_likelihood returns the summed value, one number, not
\* the per-step terms.
C2_SummedValue ==
    out.kind = "log_likelihood" => out.shape = <<>>

\* C2 amended: log_likelihood(x) returns the array of the per-step
\* log-densities, one row for each trial and one column for each step t+1,
\* not their sum; the entry of trial i and step t+1 is the density of
\* x[t+1] under the Gaussian given by the observed sub-block of the moments
\* that conditional_moments produces from x[0..t] only.
C2_PerStepTerms ==
    out.kind = "log_likelihood" =>
        /\ out.shape = <<Len(out.x[1]), Len(out.x) - 1>>
        /\ Len(out.ll) = Len(out.x[1])
        /\ \A i \in 1..Len(out.x[1]) :
              /\ Len(out.ll[i]) = Len(out.x) - 1
              /\ \A t \in 1..(Len(out.x) - 1) :
                    out.ll[i][t] = TermFromPrefix(out.x, i, t)

C2_Witness ==
    /\ out.kind = "log_likelihood"
    /\ Len(out.x) = MaxT /\ Len(out.x[1]) = MaxN
    /\ out.x[2] # out.x[3]
    /\ \A i \in 1..MaxN : MatFinite(out.ll[i][2].cov)

\* C4: row 0 of the returned states is x0 (zero when x0 is None) and row 0
\* of the returned beliefs is zero, for every trial.
C4_FirstRows ==
    Returned =>
        \A i \in 1..out.args.n :
            /\ out.x[1][i] = IF out.args.x0 = None THEN zeros(xdim(sys[1]))
                             ELSE out.args.x0[1]
            /\ out.args.return_all => out.x_hat[1][i] = zeros(bdim(sys[1]))

C4_Witness ==
    /\ ReturnedAll
    /\ out.args.x0 # None /\ out.args.T = MaxT /\ out.args.n = MaxN
    /\ out.x[2][1] # out.x[1][1]
    /\ out.x[2][1] # out.x[2][2]

MomentsFinite(m) ==
    \A t \in 1..Len(m) : MatFinite(m[t][1]) /\ MatFinite(m[t][2])

\* the covariance carried into step t of a conditional_moments call that
\* returned the pairs m
CarriedSigma(m, x, t) ==
    IF t = 1
    THEN initial_Sigma(noise_G(sys[1], Actor_L(provider, sys[1].actor, Len(x)),
                               Actor_K(provider, sys[1].actor, Len(x))))
    ELSE m[t - 1][2]

\* C5 as stated: a step of conditional_moments whose carried covariance has
\* a singular observed block raises, so a call that returns has met no
\* singular block and returns no non-finite entry.
C5_SingularRaises ==
    out.kind = "moments" =>
        /\ \A t \in 1..Len(out.moments) :
              LET d == Len(out.x[1][1])
              IN  ~Singular(Block(CarriedSigma(out.moments, out.x, t), d, d))
        /\ MomentsFinite(out.moments)

\* C6 as stated: no System with inconsistent shapes ever exists.
C6_NoInconsistentSystem ==
    sys # <<>> => ShapesOK(sys[1])

\* the concatenation (x, x_hat) of trial i after p scan iterations
Augmented(fr, i, p) ==
    IF p = 0 THEN fr.x0 \o initial_xhat(sys[1])
    ELSE fr.x[p][i] \o fr.x_hat[p][i]

\* C7 as stated: every iteration of simulate's loop takes z = (x, x_hat) to
\* F z + G w, with F and G as conditional_moments assembles them from the
\* same L and K and w = (epsilon[t], eta[t]).
C7_SameTransition ==
    (/\ pc = "simulate"
     /\ ShapesOK(sys[1])
     /\ moments_shapes_ok(sys[1], frame.L, frame.K, xdim(sys[1]))) =>
        LET F == transition_F(sys[1], frame.L, frame.K)
            G == noise_G(sys[1], frame.L, frame.K)
        IN  \A p \in 1..Len(frame.x) : \A i \in 1..frame.args.n :
                LET t == frame.steps[p]
                    w == frame.epsilon[i][t + 1] \o frame.eta[i][t + 1]
                IN  Augmented(frame, i, p) =
                        VecAdd(MatVec(F, Augmented(frame, i, p - 1)), MatVec(G, w))

\* the pair carried into step p of the scan in progress
CarriedInto(fr, p) ==
    IF p = 1
    THEN <<initial_mu(sys[1], Len(fr.x[1]), fr.mu0), initial_Sigma(fr.G)>>
    ELSE fr.moments[p - 1]

\* C8 as stated: each step first predicts the carried moments through the
\* transition and then conditions the prediction on the new row; that pair
\* is emitted and carried on.
C8_PredictThenCondition ==
    pc = "moments" =>
        \A p \in 1..Len(frame.moments) :
            frame.moments[p] =
                predict_then_condition(frame.F, frame.G, frame.d,
                                       CarriedInto(frame, p), frame.x[p])

\* C8 amended: each step first conditions the carried moments on the new
\* row x[t] (the first d coordinates of the carried state, with the observed
\* block of the carried covariance) and then predicts through the
\* transition (mean through F, covariance F Sigma F^T + G G^T); the pair
\* emitted at index t is that prediction of step t+1 given the rows up to
\* and including t, and it is the pair carried into the next step.
C8_ConditionThenPredict ==
    pc = "moments" =>
        /\ \A p \in 1..Len(frame.moments) :
              frame.moments[p] =
                  condition_then_predict(frame.F, frame.G, frame.d,
                                         CarriedInto(frame, p), frame.x[p])
        /\ frame.carry = CarriedInto(frame, Len(frame.moments) + 1)

C8_Witness ==
    /\ pc = "moments"
    /\ Len(frame.moments) = MaxT
    /\ frame.d = 2
    /\ MomentsFinite(frame.moments)
    /\ frame.moments[MaxT] #
          predict_then_condition(frame.F, frame.G, frame.d,
                                 CarriedInto(frame, MaxT), frame.x[MaxT])

\* C9 as stated: with return_all the observations come back full length, the
\* step-0 observation followed by the y of every scan iteration, a row for
\* every row of states.
C9_FullLengthObservations ==
    ReturnedAll => Len(out.y) = Len(out.x)

C3_SameArgumentsSameOutput ==
    (Returned /\ ref.set /\ out.args = ref.args) => out = ref.out

C3_Witness ==
    /\ Returned /\ ref.set /\ out.args = ref.args
    /\ ref.others /\ ncalls = MaxCalls
    /\ out.args.T = MaxT /\ out.args.n = MaxN
    /\ out.x[2][1] # out.x[2][2]

=============================================================================
